---- MODULE Spec2Model ----
(***************************************************************************)
(* State-machine model of the view state of the CreeperCraft site:        *)
(* the Bans view (search, filters, pagination), the FAQ category filter   *)
(* and accordion, the Staff cards, the hero text slider, the bundle       *)
(* carousel, the repeating timers of the App, Hero and Vote views, the    *)
(* copy indicators, the Rankings view, the voting panel, the mobile menu, *)
(* the Back-to-Top button, the documented player-count polling hook and   *)
(* the time-remaining text of the ban rows.                                *)
(*                                                                         *)
(* JavaScript strings are modelled as sequences of character codes, so    *)
(* that toLowerCase and includes are computed, not assumed.               *)
(***************************************************************************)
EXTENDS Integers, Sequences, FiniteSets, TLC

VARIABLES
  mounted,           \* whether the App tree (App, HeroSection, VoteSection, ...) is mounted
  searchTerm,        \* BansSection: search query (sequence of character codes)
  filterType,        \* BansSection: "all" | "temporary" | "permanent"
  filterSeverity,    \* BansSection: "all" | "minor" | "major" | "severe"
  currentPage,       \* BansSection: 1-based page number
  activeCategory,    \* FAQSection: selected category id
  currentTextIndex,  \* HeroSection: index of the displayed slider text
  activeSlide,       \* App: index of the displayed bundle
  playerCount,       \* App: simulated registered players
  onlineCount,       \* App: simulated online players
  totalVotes,        \* VoteSection: simulated total votes
  dailyVotes,        \* VoteSection: simulated votes of today
  heroInterval,      \* number of live setInterval handles of HeroSection
  appInterval,       \* number of live setInterval handles of App
  voteInterval,      \* number of live setInterval handles of VoteSection
  textHist,          \* history: slider indices before each of the latest ticks
  slideHist,         \* history: carousel indices before each of the latest consecutive Next clicks
  lastOp,            \* history: name of the handler that ran last
  openItems,         \* FAQSection: set of expanded FAQ item ids
  faqHist,           \* history: the latest toggleItem call, if it was the latest FAQ action
  activeFilter,      \* StaffSection: selected role filter
  expandedCard,      \* StaffSection: << >> for null, << id >> for the expanded member
  staffHist,         \* history: the latest toggleCard call, if it was the latest Staff action
  now,               \* milliseconds since the page was loaded
  appCopied,         \* App: copied flag shown by HeroSection
  appTimeouts,       \* App: due times of the pending setTimeout(() => setCopied(false))
  appCopyAt,         \* history: << >> or << time of the latest App copyServerIP call >>
  rankCopied,        \* RankingsSection: copied flag
  rankTimeouts,      \* RankingsSection: due times of its pending reset timeouts
  rankCopyAt,        \* history: << >> or << time of the latest RankingsSection copyServerIP call >>
  activeTab,         \* App: selected ranking tab
  servers,           \* VoteSection: per platform id, voted flag and nextVoteTime
  userVoteStreak,    \* VoteSection: vote streak of the user
  isMenuOpen,        \* App: whether the mobile menu is open
  menuHist,          \* history: the latest hamburger click, if it was the latest menu action
  scrollY,           \* window scroll offset in px
  isVisible,         \* BackToTopButton: whether the button is shown
  scrollListeners,   \* number of registered scroll listeners of BackToTopButton
  hookPlayerCount,   \* usePlayerCount: playerCount
  hookOnlineCount,   \* usePlayerCount: onlineCount
  hookLoading,       \* usePlayerCount: loading
  hookInflight       \* usePlayerCount: number of fetches awaiting their response

vars == << mounted, searchTerm, filterType, filterSeverity, currentPage,
           activeCategory, currentTextIndex, activeSlide, playerCount,
           onlineCount, totalVotes, dailyVotes, heroInterval, appInterval,
           voteInterval, textHist, slideHist, lastOp,
           openItems, faqHist, activeFilter, expandedCard, staffHist,
           now, appCopied, appTimeouts, appCopyAt, rankCopied, rankTimeouts,
           rankCopyAt, activeTab, servers, userVoteStreak, isMenuOpen,
           menuHist, scrollY, isVisible, scrollListeners, hookPlayerCount,
           hookOnlineCount, hookLoading, hookInflight >>

bansVars == << searchTerm, filterType, filterSeverity, currentPage >>
cycleVars == << currentTextIndex, activeSlide, textHist, slideHist >>
countVars == << playerCount, onlineCount, totalVotes, dailyVotes >>
timerVars == << heroInterval, appInterval, voteInterval >>
faqVars == << openItems, faqHist >>
staffVars == << activeFilter, expandedCard, staffHist >>
copyVars == << appCopied, appTimeouts, appCopyAt, rankCopied, rankTimeouts,
              rankCopyAt >>
voteVars == << servers, userVoteStreak >>
navVars == << isMenuOpen, menuHist >>
scrollVars == << scrollY, isVisible, scrollListeners >>
hookVars == << hookPlayerCount, hookOnlineCount, hookLoading, hookInflight >>

\* The state of the views beside the Bans view, the cycling controllers and
\* the simulated counts.
panelVars == << faqVars, staffVars, now, copyVars, activeTab, voteVars,
               navVars, scrollVars, hookVars >>

\* The state of the Bans view, the FAQ category, the cycling controllers, the
\* simulated counts and the intervals.
siteVars == << mounted, bansVars, activeCategory, cycleVars, countVars,
              timerVars >>

\* ---------------------------------------------------------------- bounds

\* The simulated player counts are followed while within MaxDrift of their
\* initial values.
MaxDrift == 2

\* The simulated vote counts are followed while within MaxVoteGain of their
\* initial values.
MaxVoteGain == 3

\* The FAQ view is followed while at most MaxOpen items are expanded.
MaxOpen == 3

\* The copy indicators are followed for MaxSeconds seconds after page load.
MaxSeconds == 4

\* The voting panel is followed for MaxHours hours after page load.
MaxHours == 12

\* The polling hook is followed while at most MaxInflight fetches await their
\* response.
MaxInflight == 3

\* ------------------------------------------------------ JavaScript helpers

Min(a, b) == IF a < b THEN a ELSE b
Max(a, b) == IF a > b THEN a ELSE b

\* String.prototype.toLowerCase on ASCII text: 'A'..'Z' (65..90) map to
\* 'a'..'z' (97..122), every other character is kept.
toLowerCase(s) ==
  [i \in 1..Len(s) |-> IF s[i] \in 65..90 THEN s[i] + 32 ELSE s[i]]

\* String.prototype.includes: t occurs in s as a contiguous substring; the
\* empty string occurs in every string.
includesNonEmpty(s, t) ==
  /\ Len(t) > 0
  /\ \E k \in 0..(Len(s) - Len(t)) : \A j \in 1..Len(t) : s[k + j] = t[j]
includes(s, t) ==
  \E k \in 0..(Len(s) - Len(t)) : \A j \in 1..Len(t) : s[k + j] = t[j]

\* Array.prototype.slice(start, end): negative arguments count from the end,
\* both are clamped to the array, and the result is empty when start >= end.
slice(s, start, end) ==
  LET n == Len(s)
      b == IF start < 0 THEN Max(n + start, 0) ELSE Min(start, n)
      e == IF end < 0 THEN Max(n + end, 0) ELSE Min(end, n)
  IN  IF b >= e THEN << >> ELSE [i \in 1..(e - b) |-> s[b + i]]

\* Math.ceil(a / b) for integers a >= 0, b > 0.
MathCeilDivFloor(a, b) == a \div b
MathCeilDiv(a, b) == IF a % b = 0 THEN a \div b ELSE (a \div b) + 1

\* ------------------------------------------------------------- Bans data

\* The ban records of the view (the fields the filter reads; avatars, dates
\* and status are not read by it).
banRecords == <<
  [ id |-> 1,
    \* playerName 'GrieferKing99'
    playerName |-> <<71, 114, 105, 101, 102, 101, 114, 75, 105, 110, 103, 57, 57>>,
    \* bannedBy 'AdminSteve'
    bannedBy |-> <<65, 100, 109, 105, 110, 83, 116, 101, 118, 101>>,
    \* reason 'Griefing spawn area and destroying player builds'
    reason |-> <<71, 114, 105, 101, 102, 105, 110, 103, 32, 115, 112, 97, 119, 110, 32, 97, 114, 101, 97, 32, 97, 110, 100, 32, 100, 101, 115, 116, 114, 111, 121, 105, 110, 103, 32, 112, 108, 97, 121, 101, 114, 32, 98, 117, 105, 108, 100, 115>>,
    banType |-> "temporary", severity |-> "major" ],
  [ id |-> 2,
    \* playerName 'HackerPro2024'
    playerName |-> <<72, 97, 99, 107, 101, 114, 80, 114, 111, 50, 48, 50, 52>>,
    \* bannedBy 'ModeratorAlex'
    bannedBy |-> <<77, 111, 100, 101, 114, 97, 116, 111, 114, 65, 108, 101, 120>>,
    \* reason 'Using X-ray hacks and fly modifications'
    reason |-> <<85, 115, 105, 110, 103, 32, 88, 45, 114, 97, 121, 32, 104, 97, 99, 107, 115, 32, 97, 110, 100, 32, 102, 108, 121, 32, 109, 111, 100, 105, 102, 105, 99, 97, 116, 105, 111, 110, 115>>,
    banType |-> "permanent", severity |-> "severe" ],
  [ id |-> 3,
    \* playerName 'ToxicPlayer123'
    playerName |-> <<84, 111, 120, 105, 99, 80, 108, 97, 121, 101, 114, 49, 50, 51>>,
    \* bannedBy 'AdminSteve'
    bannedBy |-> <<65, 100, 109, 105, 110, 83, 116, 101, 118, 101>>,
    \* reason 'Harassment and inappropriate language in chat'
    reason |-> <<72, 97, 114, 97, 115, 115, 109, 101, 110, 116, 32, 97, 110, 100, 32, 105, 110, 97, 112, 112, 114, 111, 112, 114, 105, 97, 116, 101, 32, 108, 97, 110, 103, 117, 97, 103, 101, 32, 105, 110, 32, 99, 104, 97, 116>>,
    banType |-> "temporary", severity |-> "minor" ],
  [ id |-> 4,
    \* playerName 'DupeExploit'
    playerName |-> <<68, 117, 112, 101, 69, 120, 112, 108, 111, 105, 116>>,
    \* bannedBy 'ModeratorSarah'
    bannedBy |-> <<77, 111, 100, 101, 114, 97, 116, 111, 114, 83, 97, 114, 97, 104>>,
    \* reason 'Exploiting item duplication glitches'
    reason |-> <<69, 120, 112, 108, 111, 105, 116, 105, 110, 103, 32, 105, 116, 101, 109, 32, 100, 117, 112, 108, 105, 99, 97, 116, 105, 111, 110, 32, 103, 108, 105, 116, 99, 104, 101, 115>>,
    banType |-> "temporary", severity |-> "major" ],
  [ id |-> 5,
    \* playerName 'SpamBot2025'
    playerName |-> <<83, 112, 97, 109, 66, 111, 116, 50, 48, 50, 53>>,
    \* bannedBy 'AutoMod'
    bannedBy |-> <<65, 117, 116, 111, 77, 111, 100>>,
    \* reason 'Automated spam detection - excessive chat flooding'
    reason |-> <<65, 117, 116, 111, 109, 97, 116, 101, 100, 32, 115, 112, 97, 109, 32, 100, 101, 116, 101, 99, 116, 105, 111, 110, 32, 45, 32, 101, 120, 99, 101, 115, 115, 105, 118, 101, 32, 99, 104, 97, 116, 32, 102, 108, 111, 111, 100, 105, 110, 103>>,
    banType |-> "temporary", severity |-> "minor" ],
  [ id |-> 6,
    \* playerName 'CheatEngine'
    playerName |-> <<67, 104, 101, 97, 116, 69, 110, 103, 105, 110, 101>>,
    \* bannedBy 'AdminSteve'
    bannedBy |-> <<65, 100, 109, 105, 110, 83, 116, 101, 118, 101>>,
    \* reason 'Multiple hacking violations and ban evasion'
    reason |-> <<77, 117, 108, 116, 105, 112, 108, 101, 32, 104, 97, 99, 107, 105, 110, 103, 32, 118, 105, 111, 108, 97, 116, 105, 111, 110, 115, 32, 97, 110, 100, 32, 98, 97, 110, 32, 101, 118, 97, 115, 105, 111, 110>>,
    banType |-> "permanent", severity |-> "severe" ],
  [ id |-> 7,
    \* playerName 'BuildDestroyer'
    playerName |-> <<66, 117, 105, 108, 100, 68, 101, 115, 116, 114, 111, 121, 101, 114>>,
    \* bannedBy 'ModeratorAlex'
    bannedBy |-> <<77, 111, 100, 101, 114, 97, 116, 111, 114, 65, 108, 101, 120>>,
    \* reason 'Destroying community builds and monuments'
    reason |-> <<68, 101, 115, 116, 114, 111, 121, 105, 110, 103, 32, 99, 111, 109, 109, 117, 110, 105, 116, 121, 32, 98, 117, 105, 108, 100, 115, 32, 97, 110, 100, 32, 109, 111, 110, 117, 109, 101, 110, 116, 115>>,
    banType |-> "temporary", severity |-> "major" ],
  [ id |-> 8,
    \* playerName 'RuleBreaker'
    playerName |-> <<82, 117, 108, 101, 66, 114, 101, 97, 107, 101, 114>>,
    \* bannedBy 'ModeratorSarah'
    bannedBy |-> <<77, 111, 100, 101, 114, 97, 116, 111, 114, 83, 97, 114, 97, 104>>,
    \* reason 'Repeated violations of server rules'
    reason |-> <<82, 101, 112, 101, 97, 116, 101, 100, 32, 118, 105, 111, 108, 97, 116, 105, 111, 110, 115, 32, 111, 102, 32, 115, 101, 114, 118, 101, 114, 32, 114, 117, 108, 101, 115>>,
    banType |-> "temporary", severity |-> "minor" ],
  [ id |-> 9,
    \* playerName 'PvPCheater'
    playerName |-> <<80, 118, 80, 67, 104, 101, 97, 116, 101, 114>>,
    \* bannedBy 'AdminSteve'
    bannedBy |-> <<65, 100, 109, 105, 110, 83, 116, 101, 118, 101>>,
    \* reason 'Using combat hacks and kill aura'
    reason |-> <<85, 115, 105, 110, 103, 32, 99, 111, 109, 98, 97, 116, 32, 104, 97, 99, 107, 115, 32, 97, 110, 100, 32, 107, 105, 108, 108, 32, 97, 117, 114, 97>>,
    banType |-> "temporary", severity |-> "major" ],
  [ id |-> 10,
    \* playerName 'AltAccount99'
    playerName |-> <<65, 108, 116, 65, 99, 99, 111, 117, 110, 116, 57, 57>>,
    \* bannedBy 'AutoMod'
    bannedBy |-> <<65, 117, 116, 111, 77, 111, 100>>,
    \* reason 'Ban evasion using alternate account'
    reason |-> <<66, 97, 110, 32, 101, 118, 97, 115, 105, 111, 110, 32, 117, 115, 105, 110, 103, 32, 97, 108, 116, 101, 114, 110, 97, 116, 101, 32, 97, 99, 99, 111, 117, 110, 116>>,
    banType |-> "permanent", severity |-> "severe" ]
>>

\* Search terms the user types into the search box.
SearchTerms == {
  \* ''
  <<>>,
  \* 'hack'
  <<104, 97, 99, 107>>,
  \* 'HACK'
  <<72, 65, 67, 75>>,
  \* 'Steve'
  <<83, 116, 101, 118, 101>>,
  \* 'evasion'
  <<101, 118, 97, 115, 105, 111, 110>>,
  \* 'AUTOMOD'
  <<65, 85, 84, 79, 77, 79, 68>>,
  \* '99'
  <<57, 57>>,
  \* 'x-ray'
  <<120, 45, 114, 97, 121>>,
  \* 'zzz'
  <<122, 122, 122>>,
  \* 'a'
  <<97>>
}

FilterTypes == {"all", "temporary", "permanent"}
FilterSeverities == {"all", "minor", "major", "severe"}

\* useState(banRecords); setBans is never called, so the list is fixed.
bans == banRecords

itemsPerPage == 5

\* ------------------------------------------------------------- FAQ data

faqData == <<
  [id |-> 1, category |-> "general"],
  [id |-> 2, category |-> "technical"],
  [id |-> 3, category |-> "technical"],
  [id |-> 4, category |-> "gameplay"],
  [id |-> 5, category |-> "gameplay"],
  [id |-> 6, category |-> "rules"],
  [id |-> 7, category |-> "payment"],
  [id |-> 8, category |-> "payment"],
  [id |-> 9, category |-> "payment"],
  [id |-> 10, category |-> "rules"],
  [id |-> 11, category |-> "rules"],
  [id |-> 12, category |-> "general"]
>>

categories == << "all", "general", "gameplay", "technical", "payment", "rules" >>

\* ------------------------------------------------- slider and bundle data

\* The six slider texts, named by their highlighted words.
sliderTexts == << "Hardcore", "guild wars", "dungeons", "leaderboards",
                 "VIP ranks", "tournaments" >>

\* The three bundles, named by their names.
bundles == << "Starter Pack", "Warrior Pack", "Elite Pack" >>

InitialPlayerCount == 260
InitialOnlineCount == 139
InitialTotalVotes == 1247
InitialDailyVotes == 23

InitialUserVoteStreak == 7

\* setTimeout(() => setCopied(false), 2000)
CopyResetDelay == 2000

\* scrollTop > 300
ScrollThreshold == 300

\* 60 * 60 * 1000 milliseconds
Hour == 60 * 60 * 1000

\* ----------------------------------------------------------- Staff data

\* The staff members (the fields the role filter and the cards' toggle read).
staffMembers == <<
  [id |-> 1, roleType |-> "owner"],
  [id |-> 2, roleType |-> "admin"],
  [id |-> 3, roleType |-> "moderator"],
  [id |-> 4, roleType |-> "moderator"],
  [id |-> 5, roleType |-> "developer"],
  [id |-> 6, roleType |-> "builder"],
  [id |-> 7, roleType |-> "helper"],
  [id |-> 8, roleType |-> "moderator"]
>>

\* ['all', ...new Set(staffMembers.map(member => member.roleType))]
roleTypes == << "all", "owner", "admin", "moderator", "developer", "builder",
               "helper" >>

\* ------------------------------------------------------------ Vote data

\* The voting platforms (the fields handleVote and the vote button read);
\* nextVoteTime is << >> when absent. Platform 3 starts voted, with its next
\* vote 8 hours after the page was loaded.
serverLists == <<
  [id |-> 1, cooldown |-> 24, voted |-> FALSE, nextVoteTime |-> << >>],
  [id |-> 2, cooldown |-> 24, voted |-> FALSE, nextVoteTime |-> << >>],
  [id |-> 3, cooldown |-> 12, voted |-> TRUE, nextVoteTime |-> << 8 * Hour >>],
  [id |-> 4, cooldown |-> 24, voted |-> FALSE, nextVoteTime |-> << >>],
  [id |-> 5, cooldown |-> 24, voted |-> FALSE, nextVoteTime |-> << >>],
  [id |-> 6, cooldown |-> 12, voted |-> FALSE, nextVoteTime |-> << >>]
>>

\* -------------------------------------------------------- Rankings data

tabConfigs == << "players", "guilds", "kills" >>

playerRankings == <<
  [name |-> "Sketchie", level |-> 1263, rank |-> 1],
  [name |-> "Bartas10256", level |-> 1263, rank |-> 2],
  [name |-> "LordTricker", level |-> 1263, rank |-> 3],
  [name |-> "PlayerFour", level |-> 1250, rank |-> 4],
  [name |-> "PlayerFive", level |-> 1240, rank |-> 5],
  [name |-> "PlayerSix", level |-> 1230, rank |-> 6],
  [name |-> "PlayerSeven", level |-> 1220, rank |-> 7],
  [name |-> "PlayerEight", level |-> 1210, rank |-> 8],
  [name |-> "PlayerNine", level |-> 1200, rank |-> 9],
  [name |-> "PlayerTen", level |-> 1190, rank |-> 10],
  [name |-> "PlayerEleven", level |-> 1180, rank |-> 11],
  [name |-> "PlayerTwelve", level |-> 1170, rank |-> 12],
  [name |-> "PlayerThirteen", level |-> 1160, rank |-> 13],
  [name |-> "PlayerFourteen", level |-> 1150, rank |-> 14],
  [name |-> "PlayerFifteen", level |-> 1140, rank |-> 15],
  [name |-> "PlayerSixteen", level |-> 1130, rank |-> 16],
  [name |-> "PlayerSeventeen", level |-> 1120, rank |-> 17],
  [name |-> "PlayerEighteen", level |-> 1110, rank |-> 18],
  [name |-> "PlayerNineteen", level |-> 1100, rank |-> 19],
  [name |-> "PlayerTwenty", level |-> 1090, rank |-> 20]
>>

guildRankings == <<
  [name |-> "DragonSlayers", level |-> 5420, rank |-> 1],
  [name |-> "ShadowWarriors", level |-> 5380, rank |-> 2],
  [name |-> "CrystalGuards", level |-> 5340, rank |-> 3],
  [name |-> "IronLegion", level |-> 5300, rank |-> 4],
  [name |-> "FireStorm", level |-> 5260, rank |-> 5],
  [name |-> "StormBreakers", level |-> 5220, rank |-> 6],
  [name |-> "VoidHunters", level |-> 5180, rank |-> 7],
  [name |-> "BloodMoon", level |-> 5140, rank |-> 8],
  [name |-> "SkyRiders", level |-> 5100, rank |-> 9],
  [name |-> "DarkKnights", level |-> 5060, rank |-> 10],
  [name |-> "PhoenixRising", level |-> 5020, rank |-> 11],
  [name |-> "ThunderBolts", level |-> 4980, rank |-> 12],
  [name |-> "IceBreakers", level |-> 4940, rank |-> 13],
  [name |-> "GoldenEagles", level |-> 4900, rank |-> 14],
  [name |-> "SilverWolves", level |-> 4860, rank |-> 15],
  [name |-> "CrimsonTide", level |-> 4820, rank |-> 16],
  [name |-> "EmeraldGuard", level |-> 4780, rank |-> 17],
  [name |-> "DiamondCrusher", level |-> 4740, rank |-> 18],
  [name |-> "NetherLords", level |-> 4700, rank |-> 19],
  [name |-> "EnderWatch", level |-> 4660, rank |-> 20]
>>

killRankings == <<
  [name |-> "DeathBringer", level |-> 2847, rank |-> 1],
  [name |-> "SoulReaper", level |-> 2803, rank |-> 2],
  [name |-> "BloodHunter", level |-> 2759, rank |-> 3],
  [name |-> "WarMachine", level |-> 2715, rank |-> 4],
  [name |-> "KillStreak", level |-> 2671, rank |-> 5],
  [name |-> "Assassin", level |-> 2627, rank |-> 6],
  [name |-> "Executioner", level |-> 2583, rank |-> 7],
  [name |-> "Slayer", level |-> 2539, rank |-> 8],
  [name |-> "Destroyer", level |-> 2495, rank |-> 9],
  [name |-> "Terminator", level |-> 2451, rank |-> 10],
  [name |-> "Predator", level |-> 2407, rank |-> 11],
  [name |-> "Hunter", level |-> 2363, rank |-> 12],
  [name |-> "Warrior", level |-> 2319, rank |-> 13],
  [name |-> "Fighter", level |-> 2275, rank |-> 14],
  [name |-> "Gladiator", level |-> 2231, rank |-> 15],
  [name |-> "Champion", level |-> 2187, rank |-> 16],
  [name |-> "Conqueror", level |-> 2143, rank |-> 17],
  [name |-> "Vanquisher", level |-> 2099, rank |-> 18],
  [name |-> "Dominator", level |-> 2055, rank |-> 19],
  [name |-> "Overlord", level |-> 2011, rank |-> 20]
>>

\* ------------------------------------------- Bans view: computed values

matchesSearchCaseSensitive(ban) ==
  \/ includes(toLowerCase(ban.playerName), searchTerm)
  \/ includes(toLowerCase(ban.reason), searchTerm)
  \/ includes(toLowerCase(ban.bannedBy), searchTerm)
matchesSearch(ban) ==
  \/ includes(toLowerCase(ban.playerName), toLowerCase(searchTerm))
  \/ includes(toLowerCase(ban.reason), toLowerCase(searchTerm))
  \/ includes(toLowerCase(ban.bannedBy), toLowerCase(searchTerm))

matchesType(ban) == filterType = "all" \/ ban.banType = filterType

matchesSeverity(ban) == filterSeverity = "all" \/ ban.severity = filterSeverity

matches(ban) == matchesSearch(ban) /\ matchesType(ban) /\ matchesSeverity(ban)

\* bans.filter(...): the matching records in the order of bans.
filteredBans == SelectSeq(bans, matches)

totalPages == MathCeilDiv(Len(filteredBans), itemsPerPage)

startIndexZeroBased(page) == page * itemsPerPage
startIndex(page) == (page - 1) * itemsPerPage

\* filteredBans.slice(startIndex, startIndex + itemsPerPage) for a page.
pageSlice(page) ==
  slice(filteredBans, startIndex(page), startIndex(page) + itemsPerPage)

paginatedBans == pageSlice(currentPage)

\* -------------------------------------------- FAQ view: computed values

filteredFAQs ==
  IF activeCategory = "all"
  THEN faqData
  ELSE SelectSeq(faqData, LAMBDA item : item.category = activeCategory)

\* ------------------------------------------------------ cycling formulas

\* (prev + 1) % sliderTexts.length
nextTextOffByOne(prev) == (prev + 1) % (Len(sliderTexts) + 1)
nextText(prev) == (prev + 1) % Len(sliderTexts)

\* activeSlide > 0 ? activeSlide - 1 : bundles.length - 1
prevSlideThroughZero(i) == IF i >= 0 THEN i - 1 ELSE Len(bundles) - 1
prevSlide(i) == IF i > 0 THEN i - 1 ELSE Len(bundles) - 1

\* activeSlide < bundles.length - 1 ? activeSlide + 1 : 0
nextSlidePastEnd(i) == IF i < Len(bundles) THEN i + 1 ELSE 0
nextSlideStuck(i) == IF i < Len(bundles) - 1 THEN i + 1 ELSE i
nextSlide(i) == IF i < Len(bundles) - 1 THEN i + 1 ELSE 0

\* History only: h with x appended, cut to its latest n entries.
Remember(h, x, n) ==
  LET a == Append(h, x)
  IN  IF Len(a) > n THEN SubSeq(a, Len(a) - n + 1, Len(a)) ELSE a

\* ------------------------------------------------------- toggle handlers

\* toggleItem's new set: a copy of openItems with id deleted if it was
\* present and added otherwise.
toggledAddOnly(open, id) == open \cup {id}
toggled(open, id) == IF id \in open THEN open \ {id} ELSE open \cup {id}

\* toggleCard's new value: null (<< >>) if memberId's card is the expanded
\* one, memberId otherwise.
toggleCardAlwaysExpand(expanded, memberId) == << memberId >>
toggleCard(expanded, memberId) ==
  IF expanded = << memberId >> THEN << >> ELSE << memberId >>

\* activeFilter === 'all' ? staffMembers : staffMembers.filter(...)
filteredStaff ==
  IF activeFilter = "all"
  THEN staffMembers
  ELSE SelectSeq(staffMembers, LAMBDA member : member.roleType = activeFilter)

\* ------------------------------------------------------------ vote panel

\* server.voted && server.nextVoteTime: the platform shows the disabled
\* VOTED button in place of VOTE NOW.
showsVoted(server) == server.voted /\ server.nextVoteTime # << >>

\* handleVote's condition: server && !server.voted
acceptsVote(list, serverId) ==
  \E i \in 1..Len(list) : list[i].id = serverId /\ ~list[i].voted

\* prev.map(s => s.id === serverId ? {...s, voted: true, nextVoteTime: new
\* Date(Date.now() + s.cooldown * 60 * 60 * 1000)} : s)
markVotedEvery(prev, serverId, time) ==
  [i \in 1..Len(prev) |->
     [prev[i] EXCEPT !.voted = TRUE,
                     !.nextVoteTime = << time + prev[i].cooldown * Hour >>]]
markVoted(prev, serverId, time) ==
  [i \in 1..Len(prev) |->
     IF prev[i].id = serverId
     THEN [prev[i] EXCEPT !.voted = TRUE,
                          !.nextVoteTime = << time + prev[i].cooldown * Hour >>]
     ELSE prev[i]]

\* handleVote as a function of the state it reads: the new servers,
\* dailyVotes and userVoteStreak; nothing changes unless the platform exists
\* and is not voted.
handleVote(list, daily, streak, serverId, time) ==
  IF acceptsVote(list, serverId)
  THEN [servers |-> markVoted(list, serverId, time),
        dailyVotes |-> daily + 1,
        userVoteStreak |-> streak + 1]
  ELSE [servers |-> list, dailyVotes |-> daily, userVoteStreak |-> streak]

\* ------------------------------------------------------------ page chrome

\* The hamburger button's new value: !isMenuOpen
toggledMenuOpenOnly(open) == TRUE
toggledMenu(open) == ~open

\* The scroll offsets the window is moved to, around the threshold.
ScrollOffsets == {0, 150, 299, 300, 301, 600}

\* handleScroll's new value: scrollTop > 300
visibleAtInclusive(scrollTop) == scrollTop >= ScrollThreshold
visibleAt(scrollTop) == scrollTop > ScrollThreshold

\* ----------------------------------------------------- player-count hook

\* The bodies response.json() can deliver: players is << >> when the field is
\* absent; a max or online of 0 stands for 0 and for an absent field alike.
HookResponses ==
  {[players |-> << >>]} \cup
  {[players |-> << [max |-> m, online |-> o] >>] :
     m \in {0, 100, 200, 500}, o \in {0, 42, 57, 100}}

\* data.players?.max || 0 and data.players?.online || 0
playersMax(data) == IF data.players = << >> THEN 0 ELSE data.players[1].max
playersOnline(data) ==
  IF data.players = << >> THEN 0 ELSE data.players[1].online

\* ---------------------------------------------------------- Rankings view

\* getCurrentRankings: switch (activeTab) with playerRankings as default.
getCurrentRankings(tab) ==
  CASE tab = "guilds" -> guildRankings
    [] tab = "kills" -> killRankings
    [] OTHER -> playerRankings

currentRankings == getCurrentRankings(activeTab)

\* The three renderPodiumPosition calls: currentRankings[0], [1], [2] with
\* positions 1, 2, 3.
podium(rankings) ==
  << [player |-> rankings[1], position |-> 1],
     [player |-> rankings[2], position |-> 2],
     [player |-> rankings[3], position |-> 3] >>

\* currentRankings.slice(3, 20).map(renderLeaderboardEntry)
leaderboardFromFifth(rankings) == slice(rankings, 4, 20)
leaderboard(rankings) == slice(rankings, 3, 20)

\* ------------------------------------------------- pagination of any list

\* Math.ceil(records.length / pageSize)
pagesOf(records, pageSize) == MathCeilDiv(Len(records), pageSize)

\* records.slice(startIndex, startIndex + pageSize) with
\* startIndex = (pageIndex - 1) * pageSize
paginateZeroBased(records, pageSize, pageIndex) ==
  slice(records, pageIndex * pageSize, pageIndex * pageSize + pageSize)
paginate(records, pageSize, pageIndex) ==
  slice(records, (pageIndex - 1) * pageSize,
        (pageIndex - 1) * pageSize + pageSize)

\* ------------------------------------------------------ ban time remaining

\* bannedUntil of the ban records by id, in milliseconds since
\* 2025-01-01T00:00:00 local time; << >> for null (permanent).
bannedUntil == <<
  << 1434600000 >>,
  << >>,
  << 1010700000 >>,
  << 1250400000 >>,
  << 724200000 >>,
  << >>,
  << 1784700000 >>,
  << 1084800000 >>,
  << 1631700000 >>,
  << >>
>>

\* The instant the page is loaded in the runs followed, on the same scale:
\* 2025-01-12T12:45:00, four hours before the ban of record 3 expires.
LoadedAt == 996300000

\* new Date().getTime() at render
currentTime == LoadedAt + now

\* Template-literal conversion of a non-negative integer to decimal digits.
RECURSIVE numToString(_)
numToString(n) ==
  IF n < 10 THEN << 48 + n >>
  ELSE numToString(n \div 10) \o << 48 + (n % 10) >>

\* formatTimeRemaining(bannedUntil) at the time `time`: 'Permanent',
\* 'Expired', `${days}d ${hours}h` or `${hours}h` as character codes.
formatTimeRemainingExpiredLate(until, time) ==
  IF until = << >> THEN << 80, 101, 114, 109, 97, 110, 101, 110, 116 >>
  ELSE LET diff == until[1] - time
           days == diff \div (1000 * 60 * 60 * 24)
           hours == (diff % (1000 * 60 * 60 * 24)) \div (1000 * 60 * 60)
       IN  IF diff < 0 THEN << 69, 120, 112, 105, 114, 101, 100 >>
           ELSE IF days > 0
                THEN numToString(days) \o << 100, 32 >>
                       \o numToString(hours) \o << 104 >>
                ELSE numToString(hours) \o << 104 >>
formatTimeRemaining(until, time) ==
  IF until = << >> THEN << 80, 101, 114, 109, 97, 110, 101, 110, 116 >>
  ELSE LET diff == until[1] - time
           days == diff \div (1000 * 60 * 60 * 24)
           hours == (diff % (1000 * 60 * 60 * 24)) \div (1000 * 60 * 60)
       IN  IF diff <= 0 THEN << 69, 120, 112, 105, 114, 101, 100 >>
           ELSE IF days > 0
                THEN numToString(days) \o << 100, 32 >>
                       \o numToString(hours) \o << 104 >>
                ELSE numToString(hours) \o << 104 >>

\* The time-remaining texts of the rendered ban rows.
timeRemainingShown ==
  [i \in 1..Len(paginatedBans) |->
     formatTimeRemaining(bannedUntil[paginatedBans[i].id], currentTime)]

\* ------------------------------------------------------------ initial state

Init ==
  /\ mounted = TRUE
  /\ searchTerm = << >>
  /\ filterType = "all"
  /\ filterSeverity = "all"
  /\ currentPage = 1
  /\ activeCategory = "all"
  /\ currentTextIndex = 0
  /\ activeSlide = 0
  /\ playerCount = InitialPlayerCount
  /\ onlineCount = InitialOnlineCount
  /\ totalVotes = InitialTotalVotes
  /\ dailyVotes = InitialDailyVotes
  /\ heroInterval = 1
  /\ appInterval = 1
  /\ voteInterval = 1
  /\ textHist = << >>
  /\ slideHist = << >>
  /\ lastOp = "init"
  /\ openItems = {}
  /\ faqHist = << >>
  /\ activeFilter = "all"
  /\ expandedCard = << >>
  /\ staffHist = << >>
  /\ now = 0
  /\ appCopied = FALSE
  /\ appTimeouts = {}
  /\ appCopyAt = << >>
  /\ rankCopied = FALSE
  /\ rankTimeouts = {}
  /\ rankCopyAt = << >>
  /\ activeTab = "players"
  /\ servers = serverLists
  /\ userVoteStreak = InitialUserVoteStreak
  /\ isMenuOpen = FALSE
  /\ menuHist = << >>
  /\ scrollY = 0
  /\ isVisible = FALSE
  /\ scrollListeners = 1
  /\ hookPlayerCount = 0
  /\ hookOnlineCount = 0
  /\ hookLoading = TRUE
  /\ hookInflight = 1

\* ------------------------------------------------------ Bans view actions

\* The search box's onChange: the term becomes the typed text.
SetSearchTerm ==
  /\ mounted
  /\ \E t \in SearchTerms : searchTerm' = t
  /\ lastOp' = "setSearchTerm"
  /\ UNCHANGED << mounted, filterType, filterSeverity, currentPage,
                  activeCategory, cycleVars, countVars, timerVars,
                  panelVars >>

\* The type select's onChange.
SetFilterType ==
  /\ mounted
  /\ \E v \in FilterTypes : filterType' = v
  /\ lastOp' = "setFilterType"
  /\ UNCHANGED << mounted, searchTerm, filterSeverity, currentPage,
                  activeCategory, cycleVars, countVars, timerVars,
                  panelVars >>

\* The severity select's onChange.
SetFilterSeverity ==
  /\ mounted
  /\ \E v \in FilterSeverities : filterSeverity' = v
  /\ lastOp' = "setFilterSeverity"
  /\ UNCHANGED << mounted, searchTerm, filterType, currentPage,
                  activeCategory, cycleVars, countVars, timerVars,
                  panelVars >>

\* The Previous button: rendered when totalPages > 1, disabled on page 1.
PreviousPage ==
  /\ mounted
  /\ totalPages > 1
  /\ currentPage # 1
  /\ currentPage' = Max(currentPage - 1, 1)
  /\ lastOp' = "previousPage"
  /\ UNCHANGED << mounted, searchTerm, filterType, filterSeverity,
                  activeCategory, cycleVars, countVars, timerVars,
                  panelVars >>

\* The Next button: rendered when totalPages > 1, disabled on the last page.
NextPage ==
  /\ mounted
  /\ totalPages > 1
  /\ currentPage # totalPages
  /\ currentPage' = Min(currentPage + 1, totalPages)
  /\ lastOp' = "nextPage"
  /\ UNCHANGED << mounted, searchTerm, filterType, filterSeverity,
                  activeCategory, cycleVars, countVars, timerVars,
                  panelVars >>

\* A page-number button: one per page 1..totalPages, when totalPages > 1.
GoToPage ==
  /\ mounted
  /\ totalPages > 1
  /\ \E page \in 1..totalPages : currentPage' = page
  /\ lastOp' = "goToPage"
  /\ UNCHANGED << mounted, searchTerm, filterType, filterSeverity,
                  activeCategory, cycleVars, countVars, timerVars,
                  panelVars >>

\* ------------------------------------------------- category change variant

\* A category change that also collapses every item.
SetActiveCategoryCollapsing ==
  /\ mounted
  /\ \E c \in 1..Len(categories) : activeCategory' = categories[c]
  /\ openItems' = {}
  /\ lastOp' = "setActiveCategory"
  /\ UNCHANGED << mounted, bansVars, cycleVars, countVars, timerVars, faqHist,
                  staffVars, now, copyVars, activeTab, voteVars, navVars,
                  scrollVars, hookVars >>

\* ------------------------------------------------------- FAQ view actions

\* A category button's onClick.
SetActiveCategory ==
  /\ mounted
  /\ \E c \in 1..Len(categories) : activeCategory' = categories[c]
  /\ lastOp' = "setActiveCategory"
  /\ UNCHANGED << mounted, bansVars, cycleVars, countVars, timerVars,
                  panelVars >>

\* --------------------------------------------------- mount and unmount

\* The App tree is mounted anew: every useState takes its initial value and
\* every effect runs, each starting one interval; BackToTopButton registers
\* its scroll listener. The clock and the window's scroll offset go on. The
\* reset timeouts of the previous instance no longer reach the new state.
Mount ==
  /\ ~mounted
  /\ mounted' = TRUE
  /\ searchTerm' = << >>
  /\ filterType' = "all"
  /\ filterSeverity' = "all"
  /\ currentPage' = 1
  /\ activeCategory' = "all"
  /\ currentTextIndex' = 0
  /\ activeSlide' = 0
  /\ playerCount' = InitialPlayerCount
  /\ onlineCount' = InitialOnlineCount
  /\ totalVotes' = InitialTotalVotes
  /\ dailyVotes' = InitialDailyVotes
  /\ heroInterval' = heroInterval + 1
  /\ appInterval' = appInterval + 1
  /\ voteInterval' = voteInterval + 1
  /\ textHist' = << >>
  /\ slideHist' = << >>
  /\ lastOp' = "mount"
  /\ openItems' = {}
  /\ faqHist' = << >>
  /\ activeFilter' = "all"
  /\ expandedCard' = << >>
  /\ staffHist' = << >>
  /\ appCopied' = FALSE
  /\ appTimeouts' = {}
  /\ appCopyAt' = << >>
  /\ rankCopied' = FALSE
  /\ rankTimeouts' = {}
  /\ rankCopyAt' = << >>
  /\ activeTab' = "players"
  /\ servers' = serverLists
  /\ userVoteStreak' = InitialUserVoteStreak
  /\ isMenuOpen' = FALSE
  /\ menuHist' = << >>
  /\ isVisible' = FALSE
  /\ scrollListeners' = scrollListeners + 1
  /\ UNCHANGED << now, scrollY, hookVars >>

\* The App tree is unmounted: every effect's cleanup clears its interval and
\* BackToTopButton removes its scroll listener. The state cells keep their
\* last values until the next mount.
UnmountLeakingHeroInterval ==
  /\ mounted
  /\ mounted' = FALSE
  /\ appInterval' = appInterval - 1
  /\ voteInterval' = voteInterval - 1
  /\ lastOp' = "unmount"
  /\ scrollListeners' = scrollListeners - 1
  /\ UNCHANGED << heroInterval, bansVars, activeCategory, cycleVars, countVars,
                  faqVars, staffVars, now, copyVars, activeTab, voteVars,
                  navVars, scrollY, isVisible, hookVars >>
Unmount ==
  /\ mounted
  /\ mounted' = FALSE
  /\ heroInterval' = heroInterval - 1
  /\ appInterval' = appInterval - 1
  /\ voteInterval' = voteInterval - 1
  /\ lastOp' = "unmount"
  /\ scrollListeners' = scrollListeners - 1
  /\ UNCHANGED << bansVars, activeCategory, cycleVars, countVars,
                  faqVars, staffVars, now, copyVars, activeTab, voteVars,
                  navVars, scrollY, isVisible, hookVars >>

\* ------------------------------------------------------ tick variants

\* A count simulation whose steps reach two in either direction.
AppTickByTwo ==
  /\ appInterval > 0
  /\ \E r1 \in 0..4, r2 \in 0..4 :
       /\ playerCount' = playerCount + r1 - 2
       /\ onlineCount' = onlineCount + r2 - 2
  /\ playerCount' \in (InitialPlayerCount - MaxDrift)..(InitialPlayerCount + MaxDrift)
  /\ onlineCount' \in (InitialOnlineCount - MaxDrift)..(InitialOnlineCount + MaxDrift)
  /\ lastOp' = "appTick"
  /\ UNCHANGED << mounted, bansVars, activeCategory, cycleVars, totalVotes,
                  dailyVotes, timerVars, panelVars >>

\* A slider tick that drives the bundle carousel as well.
HeroTickDrivingCarousel ==
  /\ heroInterval > 0
  /\ currentTextIndex' = nextText(currentTextIndex)
  /\ textHist' = Remember(textHist, currentTextIndex, Len(sliderTexts))
  /\ activeSlide' = nextSlide(activeSlide)
  /\ lastOp' = "heroTick"
  /\ UNCHANGED << mounted, bansVars, activeCategory, slideHist, countVars,
                  timerVars, panelVars >>

\* ------------------------------------------------------------ timer ticks

\* A tick of the hero slider's interval.
HeroTick ==
  /\ heroInterval > 0
  /\ currentTextIndex' = nextText(currentTextIndex)
  /\ textHist' = Remember(textHist, currentTextIndex, Len(sliderTexts))
  /\ lastOp' = "heroTick"
  /\ UNCHANGED << mounted, bansVars, activeCategory, activeSlide, slideHist,
                  countVars, timerVars,
                  panelVars >>

\* A tick of the App's player count simulation: each count moves by
\* Math.floor(Math.random() * 3) - 1.
AppTick ==
  /\ appInterval > 0
  /\ \E r1 \in 0..2, r2 \in 0..2 :
       /\ playerCount' = playerCount + r1 - 1
       /\ onlineCount' = onlineCount + r2 - 1
  /\ playerCount' \in (InitialPlayerCount - MaxDrift)..(InitialPlayerCount + MaxDrift)
  /\ onlineCount' \in (InitialOnlineCount - MaxDrift)..(InitialOnlineCount + MaxDrift)
  /\ lastOp' = "appTick"
  /\ UNCHANGED << mounted, bansVars, activeCategory, cycleVars, totalVotes,
                  dailyVotes, timerVars,
                  panelVars >>

\* A tick of the Vote view's vote count simulation: totalVotes grows by
\* Math.floor(Math.random() * 3), dailyVotes by 1 when Math.random() > 0.7.
VoteTick ==
  /\ voteInterval > 0
  /\ \E r \in 0..2, lucky \in BOOLEAN :
       /\ totalVotes' = totalVotes + r
       /\ dailyVotes' = IF lucky THEN dailyVotes + 1 ELSE dailyVotes
  /\ totalVotes' <= InitialTotalVotes + MaxVoteGain
  /\ dailyVotes' <= InitialDailyVotes + MaxVoteGain
  /\ lastOp' = "voteTick"
  /\ UNCHANGED << mounted, bansVars, activeCategory, cycleVars, playerCount,
                  onlineCount, timerVars,
                  panelVars >>

\* -------------------------------------------------------- carousel arrows

\* The Previous bundle arrow.
CarouselPrevious ==
  /\ mounted
  /\ activeSlide' = prevSlide(activeSlide)
  /\ slideHist' = << >>
  /\ lastOp' = "carouselPrevious"
  /\ UNCHANGED << mounted, bansVars, activeCategory, currentTextIndex,
                  textHist, countVars, timerVars,
                  panelVars >>

\* The Next bundle arrow.
CarouselNext ==
  /\ mounted
  /\ activeSlide' = nextSlide(activeSlide)
  /\ slideHist' = Remember(slideHist, activeSlide, Len(bundles))
  /\ lastOp' = "carouselNext"
  /\ UNCHANGED << mounted, bansVars, activeCategory, currentTextIndex,
                  textHist, countVars, timerVars,
                  panelVars >>

\* --------------------------------------------------- FAQ accordion actions

\* The header of one of the rendered FAQ items is clicked.
ToggleItem(id) ==
  /\ mounted
  /\ \E i \in 1..Len(filteredFAQs) : filteredFAQs[i].id = id
  /\ openItems' = toggled(openItems, id)
  /\ Cardinality(openItems') <= MaxOpen
  /\ faqHist' = << [id |-> id, before |-> openItems,
                    repeat |-> faqHist # << >> /\ faqHist[1].id = id] >>
  /\ lastOp' = "toggleItem"
  /\ UNCHANGED << siteVars, staffVars, now, copyVars, activeTab, voteVars,
                  navVars, scrollVars, hookVars >>

\* ------------------------------------------------------ Staff view actions

\* One of the rendered staff cards is clicked.
ToggleCard(memberId) ==
  /\ mounted
  /\ \E i \in 1..Len(filteredStaff) : filteredStaff[i].id = memberId
  /\ expandedCard' = toggleCard(expandedCard, memberId)
  /\ LET repeat == staffHist # << >> /\ staffHist[1].id = memberId
     IN  staffHist' = << [id |-> memberId, before |-> expandedCard,
                          repeat |-> repeat,
                          origin |-> IF repeat THEN staffHist[1].before
                                               ELSE expandedCard] >>
  /\ lastOp' = "toggleCard"
  /\ UNCHANGED << siteVars, faqVars, activeFilter, now, copyVars, activeTab,
                  voteVars, navVars, scrollVars, hookVars >>

\* A role filter button is clicked.
HandleFilterChange ==
  /\ mounted
  /\ \E r \in 1..Len(roleTypes) : activeFilter' = roleTypes[r]
  /\ lastOp' = "handleFilterChange"
  /\ UNCHANGED << siteVars, faqVars, expandedCard, staffHist, now, copyVars,
                  activeTab, voteVars, navVars, scrollVars, hookVars >>

\* ---------------------------------------------------- copy-to-clipboard

\* A copy handler that sets the flag and starts no reset timeout.
CopyServerIPWithoutReset ==
  /\ mounted
  /\ now + CopyResetDelay <= MaxSeconds * 1000
  /\ appCopied' = TRUE
  /\ appCopyAt' = << now >>
  /\ lastOp' = "copyServerIP"
  /\ UNCHANGED << siteVars, faqVars, staffVars, now, appTimeouts, rankCopied,
                  rankTimeouts, rankCopyAt, activeTab, voteVars, navVars,
                  scrollVars, hookVars >>

\* App.copyServerIP (the hero's server address button): sets copied and
\* starts a reset timeout; a pending earlier timeout is not cleared. Calls
\* are followed while their timeout falls within the MaxSeconds seconds.
CopyServerIP ==
  /\ mounted
  /\ now + CopyResetDelay <= MaxSeconds * 1000
  /\ appCopied' = TRUE
  /\ appTimeouts' = appTimeouts \cup {now + CopyResetDelay}
  /\ appCopyAt' = << now >>
  /\ lastOp' = "copyServerIP"
  /\ UNCHANGED << siteVars, faqVars, staffVars, now, rankCopied, rankTimeouts,
                  rankCopyAt, activeTab, voteVars, navVars, scrollVars,
                  hookVars >>

\* A due reset timeout of App runs: () => setCopied(false). A state update
\* on an unmounted component has no effect.
CopiedReset ==
  /\ \E due \in appTimeouts :
       /\ due <= now
       /\ appTimeouts' = appTimeouts \ {due}
  /\ appCopied' = IF mounted THEN FALSE ELSE appCopied
  /\ lastOp' = "copiedReset"
  /\ UNCHANGED << siteVars, faqVars, staffVars, now, appCopyAt, rankCopied,
                  rankTimeouts, rankCopyAt, activeTab, voteVars, navVars,
                  scrollVars, hookVars >>

\* RankingsSection.copyServerIP: the same handler on the section's own flag.
RankingsCopyServerIP ==
  /\ mounted
  /\ now + CopyResetDelay <= MaxSeconds * 1000
  /\ rankCopied' = TRUE
  /\ rankTimeouts' = rankTimeouts \cup {now + CopyResetDelay}
  /\ rankCopyAt' = << now >>
  /\ lastOp' = "rankingsCopyServerIP"
  /\ UNCHANGED << siteVars, faqVars, staffVars, now, appCopied, appTimeouts,
                  appCopyAt, activeTab, voteVars, navVars, scrollVars,
                  hookVars >>

\* A due reset timeout of RankingsSection runs.
RankingsCopiedReset ==
  /\ \E due \in rankTimeouts :
       /\ due <= now
       /\ rankTimeouts' = rankTimeouts \ {due}
  /\ rankCopied' = IF mounted THEN FALSE ELSE rankCopied
  /\ lastOp' = "rankingsCopiedReset"
  /\ UNCHANGED << siteVars, faqVars, staffVars, now, appCopied, appTimeouts,
                  appCopyAt, rankCopyAt, activeTab, voteVars, navVars,
                  scrollVars, hookVars >>

\* One second passes; the timeouts that are due run before time goes on.
AdvanceSecond ==
  /\ \A due \in appTimeouts \cup rankTimeouts : due > now
  /\ now' = now + 1000
  /\ now' <= MaxSeconds * 1000
  /\ lastOp' = "advanceSecond"
  /\ UNCHANGED << siteVars, faqVars, staffVars, copyVars, activeTab, voteVars,
                  navVars, scrollVars, hookVars >>

\* A ranking tab button is clicked.
SetActiveTab ==
  /\ mounted
  /\ \E t \in 1..Len(tabConfigs) : activeTab' = tabConfigs[t]
  /\ lastOp' = "setActiveTab"
  /\ UNCHANGED << siteVars, faqVars, staffVars, now, copyVars, voteVars,
                  navVars, scrollVars, hookVars >>

\* ------------------------------------------------------ vote panel actions

\* The VOTE NOW button of a platform is clicked: handleVote(server.id). The
\* button is rendered only while the platform does not show VOTED.
HandleVote(serverId) ==
  /\ mounted
  /\ \E i \in 1..Len(servers) :
       servers[i].id = serverId /\ ~showsVoted(servers[i])
  /\ LET result == handleVote(servers, dailyVotes, userVoteStreak, serverId,
                              now)
     IN  /\ servers' = result.servers
         /\ dailyVotes' = result.dailyVotes
         /\ userVoteStreak' = result.userVoteStreak
  /\ dailyVotes' <= InitialDailyVotes + MaxVoteGain
  /\ lastOp' = "handleVote"
  /\ UNCHANGED << mounted, bansVars, activeCategory, cycleVars, playerCount,
                  onlineCount, totalVotes, timerVars, faqVars, staffVars, now,
                  copyVars, activeTab, navVars, scrollVars, hookVars >>

\* Four hours pass; no reset timeout stays pending that long.
AdvanceHours ==
  /\ appTimeouts \cup rankTimeouts = {}
  /\ now' = now + 4 * Hour
  /\ now' <= MaxHours * Hour
  /\ lastOp' = "advanceHours"
  /\ UNCHANGED << siteVars, faqVars, staffVars, copyVars, activeTab, voteVars,
                  navVars, scrollVars, hookVars >>

\* ---------------------------------------------------- mobile menu actions

\* The hamburger button is clicked: setIsMenuOpen(!isMenuOpen).
ToggleMenu ==
  /\ mounted
  /\ isMenuOpen' = toggledMenu(isMenuOpen)
  /\ menuHist' = << [before |-> isMenuOpen, repeat |-> menuHist # << >>] >>
  /\ lastOp' = "toggleMenu"
  /\ UNCHANGED << siteVars, faqVars, staffVars, now, copyVars, activeTab,
                  voteVars, scrollVars, hookVars >>

\* A link of the mobile menu or its SERVER SHOP button is clicked:
\* handleLinkClick. Both are rendered only while the menu is open.
HandleLinkClick ==
  /\ mounted
  /\ isMenuOpen
  /\ isMenuOpen' = FALSE
  /\ menuHist' = << >>
  /\ \E target \in {"linkClick", "shopClick"} : lastOp' = target
  /\ UNCHANGED << siteVars, faqVars, staffVars, now, copyVars, activeTab,
                  voteVars, scrollVars, hookVars >>

\* The backdrop behind the open mobile menu is clicked.
BackdropClick ==
  /\ mounted
  /\ isMenuOpen
  /\ isMenuOpen' = FALSE
  /\ menuHist' = << >>
  /\ lastOp' = "backdropClick"
  /\ UNCHANGED << siteVars, faqVars, staffVars, now, copyVars, activeTab,
                  voteVars, scrollVars, hookVars >>

\* ---------------------------------------------------- Back-to-Top actions

\* The window is scrolled; each registered handleScroll listener runs.
Scroll ==
  /\ \E y \in ScrollOffsets : scrollY' = y
  /\ isVisible' = IF scrollListeners > 0 THEN visibleAt(scrollY') ELSE isVisible
  /\ lastOp' = "scroll"
  /\ UNCHANGED << siteVars, faqVars, staffVars, now, copyVars, activeTab,
                  voteVars, navVars, scrollListeners, hookVars >>

\* The Back-to-Top button is clicked while shown: the window scrolls to the
\* top, and the scroll event that reports the arrival is handled.
ScrollToTop ==
  /\ mounted
  /\ isVisible
  /\ scrollY' = 0
  /\ isVisible' = IF scrollListeners > 0 THEN visibleAt(scrollY') ELSE isVisible
  /\ lastOp' = "scrollToTop"
  /\ UNCHANGED << siteVars, faqVars, staffVars, now, copyVars, activeTab,
                  voteVars, navVars, scrollListeners, hookVars >>

\* --------------------------------------------- player-count hook actions

\* The hook's 30-second interval calls fetchPlayerCount: a request goes out.
HookPoll ==
  /\ hookInflight < MaxInflight
  /\ hookInflight' = hookInflight + 1
  /\ lastOp' = "hookPoll"
  /\ UNCHANGED << siteVars, faqVars, staffVars, now, copyVars, activeTab,
                  voteVars, navVars, scrollVars, hookPlayerCount,
                  hookOnlineCount, hookLoading >>

\* fetchPlayerCount's try block runs to its end: both counts are taken from
\* the body, then finally clears loading.
HookFetchSucceed ==
  /\ hookInflight > 0
  /\ hookInflight' = hookInflight - 1
  /\ \E data \in HookResponses :
       /\ hookPlayerCount' = playersMax(data)
       /\ hookOnlineCount' = playersOnline(data)
  /\ hookLoading' = FALSE
  /\ lastOp' = "hookFetchSucceed"
  /\ UNCHANGED << siteVars, faqVars, staffVars, now, copyVars, activeTab,
                  voteVars, navVars, scrollVars >>

\* fetch or response.json() throws: catch logs the error and both counts are
\* set to 0.
HookFetchFailResetting ==
  /\ hookInflight > 0
  /\ hookInflight' = hookInflight - 1
  /\ hookPlayerCount' = 0
  /\ hookOnlineCount' = 0
  /\ hookLoading' = FALSE
  /\ lastOp' = "hookFetchFail"
  /\ UNCHANGED << siteVars, faqVars, staffVars, now, copyVars, activeTab,
                  voteVars, navVars, scrollVars >>

\* fetch or response.json() throws: catch logs the error, then finally
\* clears loading.
HookFetchFail ==
  /\ hookInflight > 0
  /\ hookInflight' = hookInflight - 1
  /\ hookLoading' = FALSE
  /\ lastOp' = "hookFetchFail"
  /\ UNCHANGED << siteVars, faqVars, staffVars, now, copyVars, activeTab,
                  voteVars, navVars, scrollVars, hookPlayerCount,
                  hookOnlineCount >>

\* ---------------------------------------------------------- specifications

\* The list views: Bans search, filters and pagination, FAQ category.
NextLists ==
  \/ SetSearchTerm
  \/ SetFilterType
  \/ SetFilterSeverity
  \/ PreviousPage
  \/ NextPage
  \/ GoToPage
  \/ SetActiveCategory

\* The cycling controllers: hero slider and bundle carousel.
NextCycle ==
  \/ Mount
  \/ Unmount
  \/ HeroTick
  \/ CarouselPrevious
  \/ CarouselNext

\* The repeating timers of the Hero, App and Vote views.
NextTimers ==
  \/ Mount
  \/ Unmount
  \/ HeroTick
  \/ AppTick
  \/ VoteTick

SpecLists == Init /\ [][NextLists]_vars
SpecCycle == Init /\ [][NextCycle]_vars
SpecTimers == Init /\ [][NextTimers]_vars

\* The FAQ view: category filter and accordion.
NextFaq ==
  \/ SetActiveCategory
  \/ \E i \in 1..Len(faqData) : ToggleItem(faqData[i].id)

SpecFaq == Init /\ [][NextFaq]_vars

\* The Staff view: role filter and expandable cards.
NextStaff ==
  \/ HandleFilterChange
  \/ \E i \in 1..Len(staffMembers) : ToggleCard(staffMembers[i].id)

SpecStaff == Init /\ [][NextStaff]_vars

\* The copy indicators of the hero and of the Rankings view, with the
\* ranking tabs.
NextCopy ==
  \/ CopyServerIP
  \/ CopiedReset
  \/ RankingsCopyServerIP
  \/ RankingsCopiedReset
  \/ AdvanceSecond
  \/ SetActiveTab

SpecCopy == Init /\ [][NextCopy]_vars

\* The voting panel over the hours of a day.
NextVote ==
  \/ \E i \in 1..Len(serverLists) : HandleVote(serverLists[i].id)
  \/ AdvanceHours

SpecVote == Init /\ [][NextVote]_vars

\* The page chrome: mobile menu and Back-to-Top button.
NextChrome ==
  \/ Mount
  \/ Unmount
  \/ ToggleMenu
  \/ HandleLinkClick
  \/ BackdropClick
  \/ Scroll
  \/ ScrollToTop

SpecChrome == Init /\ [][NextChrome]_vars

\* The documented player-count polling hook.
NextHook ==
  \/ HookPoll
  \/ HookFetchSucceed
  \/ HookFetchFail

SpecHook == Init /\ [][NextHook]_vars

\* The bundle carousel beside the repeating timers of HeroSection and of App,
\* the component that owns activeSlide.
NextCarousel ==
  \/ Mount
  \/ Unmount
  \/ HeroTick
  \/ AppTick
  \/ CarouselPrevious
  \/ CarouselNext

SpecCarousel == Init /\ [][NextCarousel]_vars

\* The copy indicators with time that goes on and timeouts that run once
\* they are due.
SpecCopyLive ==
  /\ Init
  /\ [][NextCopy]_vars
  /\ WF_vars(AdvanceSecond)
  /\ WF_vars(CopiedReset)
  /\ WF_vars(RankingsCopiedReset)

\* The Bans table over the seconds and hours after page load.
NextBanTimes ==
  \/ SetFilterType
  \/ SetFilterSeverity
  \/ PreviousPage
  \/ NextPage
  \/ GoToPage
  \/ AdvanceSecond
  \/ AdvanceHours

SpecBanTimes == Init /\ [][NextBanTimes]_vars

Next ==
  \/ NextLists
  \/ NextCycle
  \/ NextTimers
  \/ NextFaq
  \/ NextStaff
  \/ NextCopy
  \/ NextVote
  \/ NextChrome
  \/ NextHook
  \/ NextCarousel
  \/ NextBanTimes

Spec == Init /\ [][Next]_vars

\* ------------------------------------------------------------------ claims

\* The ids of a sequence of records, in order.
Ids(seq) == [i \in 1..Len(seq) |-> seq[i].id]

\* The page slices of pages 1..p, concatenated.
RECURSIVE ConcatPages(_)
ConcatPages(p) == IF p <= 0 THEN << >> ELSE ConcatPages(p - 1) \o pageSlice(p)

\* Two character codes are the same letter up to case, or the same character.
SameIgnoringCase(a, b) ==
  \/ a = b
  \/ a \in 65..90 /\ b = a + 32
  \/ b \in 65..90 /\ a = b + 32

\* t occurs in s as a contiguous substring, letter case ignored.
ContainsIgnoringCase(s, t) ==
  \E k \in 0..(Len(s) - Len(t)) :
    \A j \in 1..Len(t) : SameIgnoringCase(s[k + j], t[j])

\* C1: for every search term and filters, the page slices of pages
\* 1..totalPages, concatenated, are exactly filteredBans: the matching records
\* in the order of the ban list, each exactly once and none omitted.
C1_PagesReconstructFiltered ==
  LET all == ConcatPages(totalPages)
  IN  /\ all = filteredBans
      /\ \A i \in 1..Len(all) : matches(all[i])
      /\ \A i, j \in 1..Len(all) : i < j => all[i].id < all[j].id
      /\ \A i \in 1..Len(bans) :
           matches(bans[i]) => \E j \in 1..Len(all) : all[j] = bans[i]

\* C1 witness: a type filter leaves seven records, on a full and a partial page.
C1_Witness ==
  /\ lastOp = "setFilterType"
  /\ filterType = "temporary"
  /\ Len(filteredBans) = 7
  /\ totalPages = 2
  /\ Len(pageSlice(2)) = 2

\* C2: the page index stays in the valid range: currentPage >= 1 and, whenever
\* totalPages >= 1, currentPage <= totalPages.
C2_PageClamped ==
  /\ currentPage >= 1
  /\ totalPages >= 1 => currentPage <= totalPages

\* C3: a record is in filteredBans exactly when its severity and type pass the
\* filters and the search term occurs, letter case ignored, in its player
\* name, reason or moderator; severity 'severe' with 'hack' in any case gives
\* the severe records 2 and 6.
C3_FilterMembership ==
  /\ \A i \in 1..Len(bans) :
       (\E j \in 1..Len(filteredBans) : filteredBans[j] = bans[i])
         <=> /\ filterSeverity = "all" \/ bans[i].severity = filterSeverity
             /\ filterType = "all" \/ bans[i].banType = filterType
             /\ \/ ContainsIgnoringCase(bans[i].playerName, searchTerm)
                \/ ContainsIgnoringCase(bans[i].reason, searchTerm)
                \/ ContainsIgnoringCase(bans[i].bannedBy, searchTerm)
  /\ ( /\ filterSeverity = "severe"
       /\ filterType = "all"
       /\ searchTerm \in { <<104, 97, 99, 107>>, <<72, 65, 67, 75>> } )
       => Ids(filteredBans) = << 2, 6 >>

\* C3 witness: severity 'severe' and the search text 'HACK' are in effect.
C3_Witness ==
  /\ filterSeverity = "severe"
  /\ filterType = "all"
  /\ searchTerm = <<72, 65, 67, 75>>
  /\ Len(filteredBans) = 2

\* C4: with an empty search term and both filters 'all', filteredBans is the
\* full ban list in its order; with the FAQ category 'all', filteredFAQs is
\* the full FAQ list.
C4_EmptyCriteriaMatchAll ==
  /\ (searchTerm = << >> /\ filterType = "all" /\ filterSeverity = "all")
       => filteredBans = bans
  /\ activeCategory = "all" => filteredFAQs = faqData

\* C4 witness: the search box was cleared again and the FAQ category is back
\* on 'all'.
C4_Witness ==
  /\ lastOp = "setSearchTerm"
  /\ searchTerm = << >>
  /\ filterType = "all"
  /\ filterSeverity = "all"
  /\ activeCategory = "all"
  /\ currentPage = 2
  /\ Len(filteredBans) = Len(banRecords)

\* C5: totalPages is the ceiling of filteredBans.length / 5 (the least number
\* of pages of five that hold every matching record), and it is 0 exactly when
\* no record matches.
C5_TotalPagesIsCeiling ==
  /\ itemsPerPage = 5
  /\ totalPages * itemsPerPage >= Len(filteredBans)
  /\ (totalPages - 1) * itemsPerPage < Len(filteredBans)
  /\ totalPages = 0 <=> Len(filteredBans) = 0

\* C5 witness: a search that matches nothing.
C5_Witness ==
  /\ lastOp = "setSearchTerm"
  /\ Len(filteredBans) = 0
  /\ totalPages = 0

\* C6: the hero slider is at index 0 when mounted and, after any number of
\* ticks, at an index of sliderTexts.
C6_TextIndexInRange ==
  /\ currentTextIndex \in 0..(Len(sliderTexts) - 1)
  /\ lastOp \in {"init", "mount"} => currentTextIndex = 0

\* C6 witness: the slider has just wrapped from the last text to the first.
C6_Witness ==
  /\ lastOp = "heroTick"
  /\ textHist # << >>
  /\ textHist[Len(textHist)] = Len(sliderTexts) - 1
  /\ currentTextIndex = 0

\* C7: the carousel is at index 0 when mounted and, after any arrow clicks, at
\* an index of bundles, so bundles[activeSlide] is a bundle.
C7_ActiveSlideInRange ==
  /\ activeSlide \in 0..(Len(bundles) - 1)
  /\ (activeSlide + 1) \in DOMAIN bundles
  /\ lastOp \in {"init", "mount"} => activeSlide = 0

\* C7 witness: the Previous arrow has wrapped from the first bundle to the last.
C7_Witness ==
  /\ lastOp = "carouselPrevious"
  /\ activeSlide = Len(bundles) - 1

\* C8: every cycling step is the modular formula: a slider tick gives
\* (i + 1) mod length, Next gives (activeSlide + 1) mod bundles.length and
\* Previous gives (activeSlide - 1 + bundles.length) mod bundles.length.
C8_StepsAreModular ==
  [][ /\ HeroTick =>
           currentTextIndex' = (currentTextIndex + 1) % Len(sliderTexts)
      /\ CarouselNext =>
           activeSlide' = (activeSlide + 1) % Len(bundles)
      /\ CarouselPrevious =>
           activeSlide' = (activeSlide - 1 + Len(bundles)) % Len(bundles)
    ]_vars

\* C8 witness: the Next arrow has wrapped from the last bundle to the first.
C8_Witness ==
  /\ lastOp = "carouselNext"
  /\ slideHist # << >>
  /\ slideHist[Len(slideHist)] = Len(bundles) - 1
  /\ activeSlide = 0

\* C9: the index before the latest k consecutive next steps equals the
\* current index exactly when k is the length of the list: length steps close
\* the cycle, and no smaller positive number of steps does.
C9_CycleClosure ==
  /\ \A j \in 1..Len(textHist) :
       (textHist[j] = currentTextIndex)
         <=> (Len(textHist) - j + 1 = Len(sliderTexts))
  /\ \A j \in 1..Len(slideHist) :
       (slideHist[j] = activeSlide)
         <=> (Len(slideHist) - j + 1 = Len(bundles))

\* C9 witness: six ticks from index 2 and three Next clicks from bundle 1
\* have both just closed their cycles.
C9_Witness ==
  /\ Len(textHist) = Len(sliderTexts)
  /\ textHist[1] = 2
  /\ currentTextIndex = 2
  /\ Len(slideHist) = Len(bundles)
  /\ slideHist[1] = 1
  /\ activeSlide = 1

\* C10: each view holds exactly one live interval while mounted and none
\* after unmount, and while unmounted no tick changes the slider index or the
\* simulated counts.
C10_TimersScopedToMount ==
  /\ [](mounted => heroInterval = 1 /\ appInterval = 1 /\ voteInterval = 1)
  /\ [](~mounted => heroInterval = 0 /\ appInterval = 0 /\ voteInterval = 0)
  /\ [][ (~mounted /\ ~mounted') =>
           UNCHANGED << currentTextIndex, playerCount, onlineCount,
                        totalVotes, dailyVotes >> ]_vars

\* C10 witness: the tree was unmounted after each of the three timers had
\* changed its state.
C10_Witness ==
  /\ ~mounted
  /\ lastOp = "unmount"
  /\ currentTextIndex # 0
  /\ playerCount # InitialPlayerCount
  /\ totalVotes # InitialTotalVotes

\* C11: toggleItem(id) flips the membership of id in openItems and of no
\* other id, and a second toggleItem(id) directly after the first gives back
\* exactly the set that was open before the first.
C11_ToggleItemInvolution ==
  [][ \A i \in 1..Len(faqData) :
        LET id == faqData[i].id
        IN  ToggleItem(id) =>
              /\ (openItems' \ openItems) \cup (openItems \ openItems') = {id}
              /\ (faqHist # << >> /\ faqHist[1].id = id)
                   => openItems' = faqHist[1].before
    ]_vars

\* C11 witness: an item was toggled twice in succession while two other
\* items stayed expanded.
C11_Witness ==
  /\ lastOp = "toggleItem"
  /\ faqHist # << >>
  /\ faqHist[1].repeat
  /\ Cardinality(openItems \ {faqHist[1].id}) = 2

\* C12 as stated: a second toggleCard with the same member id directly after
\* the first restores the expansion state held before the first, whatever
\* that state was.
C12_TwiceRestoresAnyState ==
  [][ \A i \in 1..Len(staffMembers) :
        LET id == staffMembers[i].id
        IN  (ToggleCard(id) /\ staffHist # << >> /\ staffHist[1].id = id)
              => expandedCard' = staffHist[1].before
    ]_vars

\* C12 amended: a second toggleCard with the same member id directly after
\* the first restores the prior expansion state when no card or that member's
\* card was expanded before; when a different member's card was expanded
\* before, the two calls leave no card expanded.
C12_TwiceRestoresOwnOrNone ==
  [][ \A i \in 1..Len(staffMembers) :
        LET id == staffMembers[i].id
        IN  (ToggleCard(id) /\ staffHist # << >> /\ staffHist[1].id = id)
              => expandedCard' = IF staffHist[1].before \in {<< >>, << id >>}
                                 THEN staffHist[1].before
                                 ELSE << >>
    ]_vars

\* C12 witness: a card was toggled twice in succession while a different
\* member's card had been expanded before.
C12_Witness ==
  /\ lastOp = "toggleCard"
  /\ staffHist # << >>
  /\ staffHist[1].repeat
  /\ staffHist[1].origin \notin {<< >>, << staffHist[1].id >>}
  /\ expandedCard = << >>

\* C13: during the CopyResetDelay milliseconds that follow the most recent
\* copyServerIP call the copied flag is true, in App and in RankingsSection.
C13_CopiedShownFullDelay ==
  /\ (appCopyAt # << >> /\ now < appCopyAt[1] + CopyResetDelay) => appCopied
  /\ (rankCopyAt # << >> /\ now < rankCopyAt[1] + CopyResetDelay) => rankCopied

\* C14: once the nextVoteTime of a platform is reached the platform is
\* votable again: it does not show VOTED and handleVote on it is accepted.
C14_VotableAfterCooldown ==
  \A i \in 1..Len(servers) :
    (servers[i].nextVoteTime # << >> /\ now >= servers[i].nextVoteTime[1])
      => /\ ~showsVoted(servers[i])
         /\ acceptsVote(servers, servers[i].id)

C16_VisibleIffScrolledPast300 ==
  /\ []((mounted /\ lastOp \in {"scroll", "scrollToTop"})
          => (isVisible <=> scrollY > 300))
  /\ [][ (~mounted /\ ~mounted') => isVisible' = isVisible ]_vars

\* C16 witness: the button is still shown after the unmounted page was
\* scrolled back to the top.
C16_Witness ==
  /\ ~mounted
  /\ lastOp = "scroll"
  /\ scrollY = 0
  /\ isVisible

\* C17: a fetch of usePlayerCount that fails leaves playerCount and
\* onlineCount as they were; loading is false once a fetch attempt has
\* completed, by success or by failure, and stays false.
C17_FailedFetchKeepsCounts ==
  /\ [][ lastOp' = "hookFetchFail"
           => UNCHANGED << hookPlayerCount, hookOnlineCount >> ]_vars
  /\ [](lastOp \in {"hookFetchFail", "hookFetchSucceed"} => ~hookLoading)
  /\ [][ ~hookLoading => ~hookLoading' ]_vars

\* C17 witness: a fetch has failed after an earlier one had delivered
\* non-zero counts, which are still held.
C17_Witness ==
  /\ lastOp = "hookFetchFail"
  /\ hookPlayerCount = 100
  /\ hookOnlineCount = 42
  /\ ~hookLoading

\* C18: when the list of the active tab has 20 entries in rank order, the
\* podium followed by the extended leaderboard is that list, entry by entry:
\* entries 1-3 on the podium as positions 1, 2, 3 and entries 4-20 in the
\* leaderboard in list order; every tab id other than 'guilds' and 'kills'
\* selects the player ranking.
C18_RankingsShownOnce ==
  /\ LET r == currentRankings
         p == podium(r)
         l == leaderboard(r)
     IN  (Len(r) = 20 /\ \A i \in 1..20 : r[i].rank = i)
           => /\ [i \in 1..3 |-> p[i].player] \o l = r
              /\ \A i \in 1..3 : p[i].position = i /\ p[i].player.rank = i
              /\ Len(l) = 17
              /\ \A j \in 1..Len(l) : l[j].rank = j + 3
  /\ \A tab \in {"players", "guilds", "kills", "unknown", ""} :
       tab \notin {"guilds", "kills"}
         => getCurrentRankings(tab) = playerRankings

\* C18 witness: the kills tab was selected, and its list has 20 entries in
\* rank order that differ from the player ranking.
C18_Witness ==
  /\ lastOp = "setActiveTab"
  /\ activeTab = "kills"
  /\ Len(currentRankings) = 20
  /\ \A i \in 1..20 : currentRankings[i].rank = i
  /\ currentRankings # playerRankings

\* C19: a tick of the App simulation moves playerCount by -1, 0 or +1 and
\* onlineCount by -1, 0 or +1, and no other step changes either count
\* (mounting the App anew sets both to their initial values).
C19_CountsStepByAtMostOne ==
  [][ /\ AppTick => /\ playerCount' - playerCount \in {-1, 0, 1}
                    /\ onlineCount' - onlineCount \in {-1, 0, 1}
      /\ (playerCount' # playerCount \/ onlineCount' # onlineCount)
           => (AppTick \/ Mount)
    ]_vars

\* C19 witness: ticks have moved the two counts in opposite directions.
C19_Witness ==
  /\ lastOp = "appTick"
  /\ playerCount = InitialPlayerCount + 1
  /\ onlineCount = InitialOnlineCount - 1

\* C20 as stated: a timer tick advances the bundle carousel's activeSlide by
\* one with wrap-around.
C20_TickAdvancesCarousel ==
  [][ (HeroTick \/ AppTick)
        => activeSlide' = (activeSlide + 1) % Len(bundles) ]_vars

\* C20 amended: no timer tick changes activeSlide; it changes only by the
\* Previous and Next arrows (and is reset when the App is mounted anew).
C20_OnlyArrowsMoveCarousel ==
  [][ /\ (HeroTick \/ AppTick) => activeSlide' = activeSlide
      /\ activeSlide' # activeSlide
           => (CarouselPrevious \/ CarouselNext \/ Mount)
    ]_vars

\* C20 witness: the slider text has been advanced by ticks while the
\* carousel stays on the bundle an arrow selected.
C20_Witness ==
  /\ lastOp = "heroTick"
  /\ currentTextIndex = 4
  /\ activeSlide = 2

C22_HandleVoteFrame ==
  /\ [][ \A i \in 1..Len(servers) :
           (HandleVote(servers[i].id) /\ ~servers[i].voted)
             => /\ servers'[i] =
                     [id |-> servers[i].id, cooldown |-> servers[i].cooldown,
                      voted |-> TRUE,
                      nextVoteTime |->
                        << now + servers[i].cooldown * 3600000 >>]
                /\ \A j \in 1..Len(servers) : j # i => servers'[j] = servers[j]
                /\ Len(servers') = Len(servers)
                /\ dailyVotes' = dailyVotes + 1
                /\ userVoteStreak' = userVoteStreak + 1
                /\ totalVotes' = totalVotes
       ]_vars
  /\ [](\A serverId \in 0..(Len(servers) + 1) :
          (\A i \in 1..Len(servers) :
             servers[i].id = serverId => servers[i].voted)
            => handleVote(servers, dailyVotes, userVoteStreak, serverId, now)
                 = [servers |-> servers, dailyVotes |-> dailyVotes,
                    userVoteStreak |-> userVoteStreak])

\* C22 witness: four hours after load platform 6 (cooldown 12 h) was voted
\* on, while platform 1 is still open and platform 3 is voted from the start.
C22_Witness ==
  /\ lastOp = "handleVote"
  /\ now = 4 * Hour
  /\ servers[6].voted
  /\ servers[6].nextVoteTime = << 16 * Hour >>
  /\ ~servers[1].voted
  /\ servers[3].voted
  /\ userVoteStreak = InitialUserVoteStreak + 1

\* C23: a copied flag that is true becomes false again, in App and in
\* RankingsSection, and once false it becomes true only by a call of that
\* component's copyServerIP.
C23_CopiedEventuallyReset ==
  /\ appCopied ~> ~appCopied
  /\ rankCopied ~> ~rankCopied
  /\ [][ (~appCopied /\ appCopied') => CopyServerIP ]_vars
  /\ [][ (~rankCopied /\ rankCopied') => RankingsCopyServerIP ]_vars

\* C23 witness: two seconds after a single copy at page load its timeout has
\* run and the flag is false again.
C23_Witness ==
  /\ lastOp = "copiedReset"
  /\ appCopyAt = << 0 >>
  /\ now = CopyResetDelay
  /\ appTimeouts = {}
  /\ ~appCopied

\* C24: for each rendered ban row the time-remaining text is 'Permanent'
\* exactly when bannedUntil is null, 'Expired' exactly when bannedUntil is at
\* or before the current time, and otherwise 'Nd Mh' (d > 0) or 'Mh' (d = 0)
\* for the one pair d, h with 0 <= h < 24 and 24 * d + h equal to the whole
\* hours that remain.
C24_TimeRemainingFormat ==
  \A i \in 1..Len(paginatedBans) :
    LET until == bannedUntil[paginatedBans[i].id]
        text == timeRemainingShown[i]
        Permanent == << 80, 101, 114, 109, 97, 110, 101, 110, 116 >>
        Expired == << 69, 120, 112, 105, 114, 101, 100 >>
    IN  /\ (text = Permanent) <=> (until = << >>)
        /\ (text = Expired) <=> (until # << >> /\ until[1] <= LoadedAt + now)
        /\ (until # << >> /\ until[1] > LoadedAt + now)
             => LET wholeHours == (until[1] - (LoadedAt + now)) \div 3600000
                IN  \E d \in 0..(wholeHours \div 24), h \in 0..23 :
                      /\ 24 * d + h = wholeHours
                      /\ text = IF d > 0
                                THEN numToString(d) \o << 100, 32 >>
                                       \o numToString(h) \o << 104 >>
                                ELSE numToString(h) \o << 104 >>

\* C24 witness: four hours after load the first page shows 'Expired' for the
\* ban that ends at that very instant, 'Permanent', '4d 21h' and '2d 18h'.
C24_Witness ==
  /\ lastOp = "advanceHours"
  /\ now = 4 * Hour
  /\ Len(timeRemainingShown) = 5
  /\ timeRemainingShown[1] = << 52, 100, 32, 50, 49, 104 >>
  /\ timeRemainingShown[2] = << 80, 101, 114, 109, 97, 110, 101, 110, 116 >>
  /\ timeRemainingShown[3] = << 69, 120, 112, 105, 114, 101, 100 >>
  /\ timeRemainingShown[4] = << 50, 100, 32, 49, 56, 104 >>

\* C25: toggleItem(id) leaves the membership of every other id in openItems
\* as it was, and a change of the active category leaves openItems as it
\* was, so the items open in a category are open when it is shown again.
C25_ExpansionFramed ==
  [][ /\ \A i \in 1..Len(faqData) :
           ToggleItem(faqData[i].id)
             => \A j \in 1..Len(faqData) :
                  j # i => (faqData[j].id \in openItems'
                              <=> faqData[j].id \in openItems)
      /\ SetActiveCategory => openItems' = openItems
    ]_vars

\* C25 witness: a single category was selected while three items are open,
\* one of them in that category and one in another.
C25_Witness ==
  /\ lastOp = "setActiveCategory"
  /\ activeCategory # "all"
  /\ Cardinality(openItems) = 3
  /\ \E i \in 1..Len(filteredFAQs) : filteredFAQs[i].id \in openItems
  /\ \E j \in 1..Len(faqData) :
       /\ faqData[j].id \in openItems
       /\ faqData[j].category # activeCategory
====
